---- MODULE Spec2Model ----
(***************************************************************************)
(* Model of swaylock's background image helper (include/cairo.h):          *)
(*   parse_background_mode, load_background_image, render_background_image *)
(*                                                                         *)
(* C doubles are modelled as exact rationals [n, d] in lowest terms, so    *)
(* all geometry statements are statements of exact arithmetic.  C strings  *)
(* are sequences of character codes with an implicit terminating NUL.      *)
(***************************************************************************)
EXTENDS Integers, Sequences, FiniteSets, TLC

VARIABLES
    pc,            \* "running" | "aborted" (assert / crash) | "exited"
    op,            \* the last operation called, with its inputs
    ret,           \* what that operation returned
    log,           \* the messages swaylock_log received during that operation
    magick,        \* the MagickWand calls issued during that operation
    trace,         \* the cairo calls issued during that operation
    image,         \* the decoded surface handed to the renderer: [width, height]
    gstate,        \* the drawing context's current graphics state
    stack,         \* the drawing context's saved graphics states
    loads,         \* number of load_background_image calls so far
    genesisCalls,  \* number of MagickWandGenesis calls so far
    terminusCalls, \* number of MagickWandTerminus calls so far
    wands,         \* live MagickWand handles
    pixelWands,    \* live PixelWand handles
    openFiles,     \* FILE* handles from fopen still open
    tmpFiles       \* FILE* handles from tmpfile still open

vars == <<pc, op, ret, log, magick, trace, image, gstate, stack, loads,
          genesisCalls, terminusCalls, wands, pixelWands, openFiles, tmpFiles>>

-----------------------------------------------------------------------------
(* Bounds *)

MaxDim == 3        \* image and buffer sides range over 1..MaxDim
MaxLoads == 2      \* load_background_image calls per process
MaxCtxScale == 2   \* the context's transform on entry is 1..MaxCtxScale

Dims == 1..MaxDim

-----------------------------------------------------------------------------
(* double arithmetic, exact *)

Abs(x) == IF x < 0 THEN -x ELSE x

RECURSIVE GCD(_, _)
GCD(a, b) == IF b = 0 THEN a ELSE GCD(b, a % b)

\* the rational n/d (d # 0) in lowest terms with a positive denominator
R(n, d) ==
    LET g == GCD(Abs(n), Abs(d))
        s == IF d < 0 THEN -1 ELSE 1
    IN  [n |-> (s * n) \div g, d |-> (s * d) \div g]

RInt(i) == [n |-> i, d |-> 1]
RMul(a, b) == R(a.n * b.n, a.d * b.d)
RDiv(a, b) == R(a.n * b.d, a.d * b.n)
RSub(a, b) == R(a.n * b.d - b.n * a.d, a.d * b.d)
RGt(a, b) == a.n * b.d > b.n * a.d

\* (int)x for a double x: C converts by discarding the fractional part
IntCastFloor(x) == x.n \div x.d
IntCast(x) == IF x.n >= 0 THEN x.n \div x.d ELSE -((-x.n) \div x.d)

-----------------------------------------------------------------------------
(* parse_background_mode *)

s_stretch     == <<115, 116, 114, 101, 116, 99, 104>>
s_fill        == <<102, 105, 108, 108>>
s_fit         == <<102, 105, 116>>
s_center      == <<99, 101, 110, 116, 101, 114>>
s_tile        == <<116, 105, 108, 101>>
s_solid_color == <<115, 111, 108, 105, 100, 95, 99, 111, 108, 111, 114>>

\* strings handed to the parser: the six tokens and near misses
\* ("Fill", "FILL", "Tile", "fil", "fills", "solid-color", "", "STRETCH")
Tokens ==
    { s_stretch, s_fill, s_fit, s_center, s_tile, s_solid_color,
      <<70, 105, 108, 108>>, <<70, 73, 76, 76>>, <<84, 105, 108, 101>>,
      <<102, 105, 108>>, <<102, 105, 108, 108, 115>>,
      <<115, 111, 108, 105, 100, 45, 99, 111, 108, 111, 114>>,
      <<>>, <<83, 84, 82, 69, 84, 67, 72>> }

\* the byte at position i of a NUL-terminated string
CharAt(s, i) == IF i <= Len(s) THEN s[i] ELSE 0

ToLower(c) == IF c >= 65 /\ c <= 90 THEN c + 32 ELSE c

RECURSIVE strcasecmp_from(_, _, _)
strcasecmp_from(a, b, i) ==
    LET ca == ToLower(CharAt(a, i))
        cb == ToLower(CharAt(b, i))
    IN  IF ca # cb THEN ca - cb
        ELSE IF ca = 0 THEN 0
        ELSE strcasecmp_from(a, b, i + 1)

strcasecmp(a, b) == strcasecmp_from(a, b, 1)

RECURSIVE strcmp_from(_, _, _)
strcmp_from(a, b, i) ==
    LET ca == CharAt(a, i)
        cb == CharAt(b, i)
    IN  IF ca # cb THEN ca - cb
        ELSE IF ca = 0 THEN 0
        ELSE strcmp_from(a, b, i + 1)

strcmp(a, b) == strcmp_from(a, b, 1)

BackgroundModes ==
    { "BACKGROUND_MODE_STRETCH", "BACKGROUND_MODE_FILL", "BACKGROUND_MODE_FIT",
      "BACKGROUND_MODE_CENTER", "BACKGROUND_MODE_TILE",
      "BACKGROUND_MODE_SOLID_COLOR", "BACKGROUND_MODE_INVALID" }

\* the value returned and the messages logged
parse_background_mode(mode) ==
    IF strcmp(mode, s_stretch) = 0 THEN
        [ret |-> "BACKGROUND_MODE_STRETCH", log |-> <<>>]
    ELSE IF strcmp(mode, s_fill) = 0 THEN
        [ret |-> "BACKGROUND_MODE_FILL", log |-> <<>>]
    ELSE IF strcmp(mode, s_fit) = 0 THEN
        [ret |-> "BACKGROUND_MODE_FIT", log |-> <<>>]
    ELSE IF strcmp(mode, s_center) = 0 THEN
        [ret |-> "BACKGROUND_MODE_CENTER", log |-> <<>>]
    ELSE IF strcmp(mode, s_tile) = 0 THEN
        [ret |-> "BACKGROUND_MODE_TILE", log |-> <<>>]
    ELSE IF strcmp(mode, s_solid_color) = 0 THEN
        [ret |-> "BACKGROUND_MODE_SOLID_COLOR", log |-> <<>>]
    ELSE
        [ret |-> "BACKGROUND_MODE_INVALID",
         log |-> <<"Unsupported background mode">>]

-----------------------------------------------------------------------------
(* the cairo drawing context: c = [gstate, stack, trace, aborted]          *)
(* gstate = [sx, sy, source]; source = [kind, x, y]                        *)

NoSource == [kind |-> "default", x |-> RInt(0), y |-> RInt(0)]

Call(fn, a, b) == [fn |-> fn, a |-> a, b |-> b]

cairo_save(c) ==
    [c EXCEPT !.stack = Append(@, c.gstate),
              !.trace = Append(@, Call("cairo_save", RInt(0), RInt(0)))]

\* the restore left out
cairo_restore_missing(c) == c

cairo_restore(c) ==
    [c EXCEPT !.gstate = c.stack[Len(c.stack)],
              !.stack = SubSeq(@, 1, Len(c.stack) - 1),
              !.trace = Append(@, Call("cairo_restore", RInt(0), RInt(0)))]

cairo_scale(c, sx, sy) ==
    [c EXCEPT !.gstate.sx = RMul(@, sx),
              !.gstate.sy = RMul(@, sy),
              !.trace = Append(@, Call("cairo_scale", sx, sy))]

cairo_set_source_surface(c, x, y) ==
    [c EXCEPT !.gstate.source = [kind |-> "surface", x |-> x, y |-> y],
              !.trace = Append(@, Call("cairo_set_source_surface", x, y))]

\* cairo_set_source with a CAIRO_EXTEND_REPEAT pattern of the image
cairo_set_source_repeat(c) ==
    [c EXCEPT !.gstate.source = [kind |-> "pattern_repeat", x |-> RInt(0), y |-> RInt(0)],
              !.trace = Append(@, Call("cairo_set_source", RInt(0), RInt(0)))]

cairo_paint(c) ==
    [c EXCEPT !.trace = Append(@, Call("cairo_paint", RInt(0), RInt(0)))]

\* assert(cond) compiled out
assert_ndebug(c, cond) == c

\* assert(cond): abort() when cond is false
assert_(c, cond) == IF cond THEN c ELSE [c EXCEPT !.aborted = TRUE]

-----------------------------------------------------------------------------
(* render_background_image: geometry of each mode *)

\* STRETCH with the ratios inverted
StretchGeometryInverted(w, h, bw, bh) ==
    [sx |-> RDiv(RInt(w), RInt(bw)), sy |-> RDiv(RInt(h), RInt(bh)),
     x |-> RInt(0), y |-> RInt(0)]

StretchGeometry(w, h, bw, bh) ==
    [sx |-> RDiv(RInt(bw), RInt(w)), sy |-> RDiv(RInt(bh), RInt(h)),
     x |-> RInt(0), y |-> RInt(0)]

\* FILL with the comparison the wrong way round
FillGeometryFlipped(w, h, bw, bh) ==
    LET window_ratio == RDiv(RInt(bw), RInt(bh))
        bg_ratio == RDiv(RInt(w), RInt(h))
    IN  IF ~RGt(window_ratio, bg_ratio) THEN
            LET scale == RDiv(RInt(bw), RInt(w))
            IN  [sx |-> scale, sy |-> scale, x |-> RInt(0),
                 y |-> RSub(RDiv(RDiv(RInt(bh), RInt(2)), scale), RDiv(RInt(h), RInt(2)))]
        ELSE
            LET scale == RDiv(RInt(bh), RInt(h))
            IN  [sx |-> scale, sy |-> scale,
                 x |-> RSub(RDiv(RDiv(RInt(bw), RInt(2)), scale), RDiv(RInt(w), RInt(2))),
                 y |-> RInt(0)]

FillGeometry(w, h, bw, bh) ==
    LET window_ratio == RDiv(RInt(bw), RInt(bh))
        bg_ratio == RDiv(RInt(w), RInt(h))
    IN  IF RGt(window_ratio, bg_ratio) THEN
            LET scale == RDiv(RInt(bw), RInt(w))
            IN  [sx |-> scale, sy |-> scale, x |-> RInt(0),
                 y |-> RSub(RDiv(RDiv(RInt(bh), RInt(2)), scale), RDiv(RInt(h), RInt(2)))]
        ELSE
            LET scale == RDiv(RInt(bh), RInt(h))
            IN  [sx |-> scale, sy |-> scale,
                 x |-> RSub(RDiv(RDiv(RInt(bw), RInt(2)), scale), RDiv(RInt(w), RInt(2))),
                 y |-> RInt(0)]

\* FIT with the centring offset not divided by the scale
FitGeometryUnscaledOffset(w, h, bw, bh) ==
    LET window_ratio == RDiv(RInt(bw), RInt(bh))
        bg_ratio == RDiv(RInt(w), RInt(h))
    IN  IF RGt(window_ratio, bg_ratio) THEN
            LET scale == RDiv(RInt(bh), RInt(h))
            IN  [sx |-> scale, sy |-> scale,
                 x |-> RSub(RDiv(RInt(bw), RInt(2)), RDiv(RInt(w), RInt(2))),
                 y |-> RInt(0)]
        ELSE
            LET scale == RDiv(RInt(bw), RInt(w))
            IN  [sx |-> scale, sy |-> scale, x |-> RInt(0),
                 y |-> RSub(RDiv(RInt(bh), RInt(2)), RDiv(RInt(h), RInt(2)))]

FitGeometry(w, h, bw, bh) ==
    LET window_ratio == RDiv(RInt(bw), RInt(bh))
        bg_ratio == RDiv(RInt(w), RInt(h))
    IN  IF RGt(window_ratio, bg_ratio) THEN
            LET scale == RDiv(RInt(bh), RInt(h))
            IN  [sx |-> scale, sy |-> scale,
                 x |-> RSub(RDiv(RDiv(RInt(bw), RInt(2)), scale), RDiv(RInt(w), RInt(2))),
                 y |-> RInt(0)]
        ELSE
            LET scale == RDiv(RInt(bw), RInt(w))
            IN  [sx |-> scale, sy |-> scale, x |-> RInt(0),
                 y |-> RSub(RDiv(RDiv(RInt(bh), RInt(2)), scale), RDiv(RInt(h), RInt(2)))]

\* CENTER: the two offsets, each cast to int
CenterOffset(w, h, bw, bh) ==
    [x |-> RInt(IntCast(RSub(RDiv(RInt(bw), RInt(2)), RDiv(RInt(w), RInt(2))))),
     y |-> RInt(IntCast(RSub(RDiv(RInt(bh), RInt(2)), RDiv(RInt(h), RInt(2)))))]

\* the switch statement
RenderSwitch(c, w, h, mode, bw, bh) ==
    CASE mode = "BACKGROUND_MODE_STRETCH" ->
            LET g == StretchGeometry(w, h, bw, bh)
            IN  cairo_set_source_surface(cairo_scale(c, g.sx, g.sy), g.x, g.y)
      [] mode = "BACKGROUND_MODE_FILL" ->
            LET g == FillGeometry(w, h, bw, bh)
            IN  cairo_set_source_surface(cairo_scale(c, g.sx, g.sy), g.x, g.y)
      [] mode = "BACKGROUND_MODE_FIT" ->
            LET g == FitGeometry(w, h, bw, bh)
            IN  cairo_set_source_surface(cairo_scale(c, g.sx, g.sy), g.x, g.y)
      [] mode = "BACKGROUND_MODE_CENTER" ->
            LET g == CenterOffset(w, h, bw, bh)
            IN  cairo_set_source_surface(c, g.x, g.y)
      [] mode = "BACKGROUND_MODE_TILE" ->
            cairo_set_source_repeat(c)
      [] mode \in {"BACKGROUND_MODE_SOLID_COLOR", "BACKGROUND_MODE_INVALID"} ->
            assert_(c, FALSE)

\* the whole function; nothing runs after an abort
render_background_image(c, w, h, mode, bw, bh) ==
    LET c1 == RenderSwitch(cairo_save(c), w, h, mode, bw, bh)
    IN  IF c1.aborted THEN c1 ELSE cairo_restore(cairo_paint(c1))

-----------------------------------------------------------------------------
(* load_background_image *)

Opacities == {0, 50, 100}

\* tmpfile() returning NULL makes MagickWriteImageFile and fseek run on a
\* null stream, which is undefined: the call either crashes or carries on
\* to a stream cairo cannot read
TmpOutcomes == {"ok", "null_crash", "null_continue"}

\* what the environment answers to the calls one load makes; an answer to a
\* call the load never reaches is fixed, so that each run is listed once
LoadInputs ==
    { in \in [openOk : BOOLEAN, readOk : BOOLEAN, cmyk : BOOLEAN,
              transformOk : BOOLEAN, blur : {0, 1}, opacity : Opacities,
              tmp : TmpOutcomes, pngOk : BOOLEAN] :
        /\ (~in.openOk => ~in.readOk)
        /\ (~in.readOk => ~in.cmyk /\ in.blur = 0 /\ in.opacity = 0 /\ in.tmp = "ok")
        /\ (~in.cmyk => in.transformOk)
        /\ (~in.readOk \/ in.tmp # "ok" => ~in.pngOk) }

\* a readable RGB file loaded with blur = 0 and opacity = 0
PlainLoad ==
    [openOk |-> TRUE, readOk |-> TRUE, cmyk |-> FALSE, transformOk |-> TRUE,
     blur |-> 0, opacity |-> 0, tmp |-> "ok", pngOk |-> TRUE]

\* the MagickWand calls of the processing section (lines 75-95)
Processing(in) ==
    (IF in.cmyk THEN <<"MagickTransformImageColorspace">> ELSE <<>>)
    \o (IF in.blur > 0 THEN <<"MagickGaussianBlurImage">> ELSE <<>>)
    \o (IF in.opacity > 0
        THEN <<"NewPixelWand", "NewPixelWand", "MagickColorizeImage">>
        ELSE <<>>)

\* the outcome of one call: return value, log, engine calls and the change
\* in live resources
load_background_image(in) ==
    IF ~in.openOk THEN
        [ret |-> "NULL", crashed |-> FALSE,
         log |-> <<"Failed to open background image file">>,
         magick |-> <<>>,
         genesis |-> 0, wands |-> 0, pixelWands |-> 0, files |-> 0, tmp |-> 0]
    ELSE IF ~in.readOk THEN
        [ret |-> "NULL", crashed |-> FALSE,
         log |-> <<"Failed to load background image">>,
         magick |-> <<"MagickWandGenesis", "NewMagickWand", "MagickReadImageFile",
                      "DestroyMagickWand">>,
         genesis |-> 1, wands |-> 0, pixelWands |-> 0, files |-> 1, tmp |-> 0]
    ELSE IF in.tmp = "null_crash" THEN
        [ret |-> "none", crashed |-> TRUE,
         log |-> <<>>,
         magick |-> <<"MagickWandGenesis", "NewMagickWand", "MagickReadImageFile">>
                    \o Processing(in) \o <<"MagickWriteImageFile">>,
         genesis |-> 1, wands |-> 1,
         pixelWands |-> IF in.opacity > 0 THEN 2 ELSE 0, files |-> 1, tmp |-> 0]
    ELSE
        LET statusOk == in.pngOk /\ in.tmp = "ok"
        IN  [ret |-> IF statusOk THEN "image" ELSE "NULL", crashed |-> FALSE,
             log |-> IF statusOk THEN <<>>
                     ELSE <<"Failed to open background image in cairo">>,
             magick |-> <<"MagickWandGenesis", "NewMagickWand", "MagickReadImageFile">>
                        \o Processing(in)
                        \o <<"MagickWriteImageFile", "DestroyMagickWand">>,
             genesis |-> 1, wands |-> 0,
             pixelWands |-> IF in.opacity > 0 THEN 2 ELSE 0,
             files |-> 1, tmp |-> IF in.tmp = "ok" THEN 1 ELSE 0]

-----------------------------------------------------------------------------------------------------------------------------------------------------
(* The process: a configuration phase that parses the mode and loads       *)
(* images, and a frame phase that renders a loaded image.                  *)

\* no surface has been decoded yet
NoImage == [width |-> 0, height |-> 0]

Identity == [sx |-> RInt(1), sy |-> RInt(1), source |-> NoSource]

\* start of the configuration phase: nothing loaded, no drawing done
InitConfig ==
    /\ pc = "running"
    /\ op = [name |-> "none"]
    /\ ret = "none"
    /\ log = <<>>
    /\ magick = <<>>
    /\ trace = <<>>
    /\ image = NoImage
    /\ gstate = Identity
    /\ stack = <<>>
    /\ loads = 0
    /\ genesisCalls = 0
    /\ terminusCalls = 0
    /\ wands = 0
    /\ pixelWands = 0
    /\ openFiles = 0
    /\ tmpFiles = 0

\* start of the frame phase: one plain load has returned a surface of some
\* size, and the caller has set up the context's transform
InitRender ==
    LET r == load_background_image(PlainLoad)
    IN  /\ pc = "running"
        /\ op = [name |-> "none"]
        /\ ret = "none"
        /\ log = <<>>
        /\ magick = <<>>
        /\ trace = <<>>
        /\ \E w \in Dims, h \in Dims : image = [width |-> w, height |-> h]
        /\ \E k \in 1..MaxCtxScale :
              gstate = [sx |-> RInt(k), sy |-> RInt(k), source |-> NoSource]
        /\ stack = <<>>
        /\ loads = 1
        /\ genesisCalls = r.genesis
        /\ terminusCalls = 0
        /\ wands = r.wands
        /\ pixelWands = r.pixelWands
        /\ openFiles = r.files
        /\ tmpFiles = r.tmp

ParseBackgroundMode ==
    /\ pc = "running"
    /\ \E mode \in Tokens :
          LET r == parse_background_mode(mode)
          IN  /\ op' = [name |-> "parse", mode |-> mode]
              /\ ret' = r.ret
              /\ log' = r.log
    /\ magick' = <<>>
    /\ trace' = <<>>
    /\ UNCHANGED <<pc, image, gstate, stack, loads, genesisCalls, terminusCalls,
                   wands, pixelWands, openFiles, tmpFiles>>

LoadBackgroundImage ==
    /\ pc = "running"
    /\ loads < MaxLoads
    /\ \E in \in LoadInputs :
          LET r == load_background_image(in)
          IN  /\ op' = [name |-> "load", in |-> in]
              /\ ret' = r.ret
              /\ log' = r.log
              /\ magick' = r.magick
              /\ pc' = IF r.crashed THEN "aborted" ELSE "running"
              /\ genesisCalls' = genesisCalls + r.genesis
              /\ wands' = wands + r.wands
              /\ pixelWands' = pixelWands + r.pixelWands
              /\ openFiles' = openFiles + r.files
              /\ tmpFiles' = tmpFiles + r.tmp
    /\ loads' = loads + 1
    /\ trace' = <<>>
    /\ UNCHANGED <<image, gstate, stack, terminusCalls>>

RenderBackgroundImage ==
    /\ pc = "running"
    /\ \E mode \in BackgroundModes, bw \in Dims, bh \in Dims :
          LET c == render_background_image(
                       [gstate |-> gstate, stack |-> stack, trace |-> <<>>,
                        aborted |-> FALSE],
                       image.width, image.height, mode, bw, bh)
          IN  /\ op' = [name |-> "render", mode |-> mode,
                        buffer_width |-> bw, buffer_height |-> bh,
                        gstate |-> gstate, stack |-> stack]
              /\ gstate' = c.gstate
              /\ stack' = c.stack
              /\ trace' = c.trace
              /\ pc' = IF c.aborted THEN "aborted" ELSE "running"
    /\ ret' = "void"
    /\ log' = <<>>
    /\ magick' = <<>>
    /\ UNCHANGED <<image, loads, genesisCalls, terminusCalls, wands, pixelWands,
                   openFiles, tmpFiles>>

\* the process ends; the engine is torn down once, after its last use
ProcessExit ==
    /\ pc = "running"
    /\ pc' = "exited"
    /\ terminusCalls' = terminusCalls + 1
    /\ UNCHANGED <<op, ret, log, magick, trace, image, gstate, stack, loads,
                   genesisCalls, wands, pixelWands, openFiles, tmpFiles>>

NextConfig ==
    \/ ParseBackgroundMode
    \/ LoadBackgroundImage
    \/ ProcessExit

NextRender ==
    \/ RenderBackgroundImage
    \/ ProcessExit

SpecConfig == InitConfig /\ [][NextConfig]_vars

SpecRender == InitRender /\ [][NextRender]_vars

-----------------------------------------------------------------------------
(* Properties *)

FiveModes ==
    { "BACKGROUND_MODE_STRETCH", "BACKGROUND_MODE_FILL", "BACKGROUND_MODE_FIT",
      "BACKGROUND_MODE_CENTER", "BACKGROUND_MODE_TILE" }

IsRender(m) == op.name = "render" /\ op.mode = m

\* the calls of one cairo function during the last operation, in order
Calls(fn) == SelectSeq(trace, LAMBDA e : e.fn = fn)

RAdd(a, b) == R(a.n * b.d + b.n * a.d, a.d * b.d)
RLe(a, b) == a.n * b.d <= b.n * a.d
RMax(a, b) == IF RGt(a, b) THEN a ELSE b

\* the scaled image rectangle along one axis, for source offset o, scale s
\* and image side len: [lo, hi] = [o*s, o*s + len*s]
Lo(o, s) == RMul(o, s)
Hi(o, s, len) == RAdd(RMul(o, s), RMul(RInt(len), s))

\* C1: in FILL mode the function applies one uniform scale
\* s = max(bw/w, bh/h) and a source offset (ox, oy) such that the scaled
\* image rectangle [ox*s, ox*s + w*s] x [oy*s, oy*s + h*s] contains the
\* buffer rectangle [0, bw] x [0, bh].
C1_FillCovers ==
    IsRender("BACKGROUND_MODE_FILL") =>
        LET w == image.width
            h == image.height
            bw == op.buffer_width
            bh == op.buffer_height
            sc == Calls("cairo_scale")
            src == Calls("cairo_set_source_surface")
        IN  /\ Len(sc) = 1
            /\ Len(src) = 1
            /\ sc[1].a = sc[1].b
            /\ sc[1].a = RMax(RDiv(RInt(bw), RInt(w)), RDiv(RInt(bh), RInt(h)))
            /\ RLe(Lo(src[1].a, sc[1].a), RInt(0))
            /\ RLe(RInt(bw), Hi(src[1].a, sc[1].a, w))
            /\ RLe(Lo(src[1].b, sc[1].a), RInt(0))
            /\ RLe(RInt(bh), Hi(src[1].b, sc[1].a, h))

\* FILL on a buffer wider than the image (bw/bh > w/h): scaled by width,
\* and the image overhangs the buffer vertically
C1_Witness ==
    /\ IsRender("BACKGROUND_MODE_FILL")
    /\ pc = "running"
    /\ op.buffer_width * image.height > image.width * op.buffer_height
    /\ Calls("cairo_scale")[1].a = RDiv(RInt(op.buffer_width), RInt(image.width))
    /\ RGt(RInt(0), Lo(Calls("cairo_set_source_surface")[1].b, Calls("cairo_scale")[1].a))

\* C2: in FIT mode the function applies one uniform scale s and a source
\* offset such that the scaled image rectangle lies inside the buffer
\* rectangle, at least one axis matches exactly (w*s = bw or h*s = bh), and
\* the scale is the ratio FILL does not take for the same comparison.
C2_FitContained ==
    IsRender("BACKGROUND_MODE_FIT") =>
        LET w == image.width
            h == image.height
            bw == op.buffer_width
            bh == op.buffer_height
            sc == Calls("cairo_scale")
            src == Calls("cairo_set_source_surface")
        IN  /\ Len(sc) = 1
            /\ Len(src) = 1
            /\ sc[1].a = sc[1].b
            /\ RLe(RInt(0), Lo(src[1].a, sc[1].a))
            /\ RLe(Hi(src[1].a, sc[1].a, w), RInt(bw))
            /\ RLe(RInt(0), Lo(src[1].b, sc[1].a))
            /\ RLe(Hi(src[1].b, sc[1].a, h), RInt(bh))
            /\ \/ RMul(RInt(w), sc[1].a) = RInt(bw)
               \/ RMul(RInt(h), sc[1].a) = RInt(bh)
            /\ sc[1].a = IF bw * h > w * bh THEN RDiv(RInt(bh), RInt(h))
                                            ELSE RDiv(RInt(bw), RInt(w))
            /\ {sc[1].a, FillGeometry(w, h, bw, bh).sx}
                   = {RDiv(RInt(bw), RInt(w)), RDiv(RInt(bh), RInt(h))}

\* FIT on a buffer taller than the image (bw/bh < w/h): scaled by width,
\* with a bar above and below
C2_Witness ==
    /\ IsRender("BACKGROUND_MODE_FIT")
    /\ pc = "running"
    /\ op.buffer_width * image.height < image.width * op.buffer_height
    /\ Calls("cairo_scale")[1].a = RDiv(RInt(op.buffer_width), RInt(image.width))
    /\ Calls("cairo_scale")[1].a # FillGeometry(image.width, image.height,
                                                op.buffer_width, op.buffer_height).sx
    /\ RGt(Lo(Calls("cairo_set_source_surface")[1].b, Calls("cairo_scale")[1].a), RInt(0))

\* x = floor(d/2) and x = d/2 rounded towards zero, for integers x and d
IsFloorHalf(x, d) == 2 * x <= d /\ d <= 2 * x + 1
IsTruncHalf(x, d) == 2 * Abs(x) <= Abs(d) /\ Abs(d) <= 2 * Abs(x) + 1 /\ x * d >= 0

\* C3 as stated: in CENTER mode the function applies no scale and places the
\* image at offset (floor(bw/2 - w/2), floor(bh/2 - h/2)), also for images
\* larger than the buffer.
C3_CenterFloor ==
    IsRender("BACKGROUND_MODE_CENTER") =>
        LET src == Calls("cairo_set_source_surface")
        IN  /\ Len(Calls("cairo_scale")) = 0
            /\ Len(src) = 1
            /\ src[1].a.d = 1
            /\ src[1].b.d = 1
            /\ IsFloorHalf(src[1].a.n, op.buffer_width - image.width)
            /\ IsFloorHalf(src[1].b.n, op.buffer_height - image.height)

\* C3 amended: in CENTER mode the function applies no scale and places the
\* image at the offset (bw/2 - w/2, bh/2 - h/2) with each coordinate rounded
\* towards zero, which is the floor exactly when the coordinate is not
\* negative or is whole.
C3_CenterTrunc ==
    IsRender("BACKGROUND_MODE_CENTER") =>
        LET src == Calls("cairo_set_source_surface")
            dx == op.buffer_width - image.width
            dy == op.buffer_height - image.height
        IN  /\ Len(Calls("cairo_scale")) = 0
            /\ Len(src) = 1
            /\ src[1].a.d = 1
            /\ src[1].b.d = 1
            /\ IsTruncHalf(src[1].a.n, dx)
            /\ IsTruncHalf(src[1].b.n, dy)
            /\ (dx >= 0 \/ dx % 2 = 0 <=> IsFloorHalf(src[1].a.n, dx))
            /\ (dy >= 0 \/ dy % 2 = 0 <=> IsFloorHalf(src[1].b.n, dy))

\* CENTER with an image one pixel wider than the buffer: the offset is 0,
\* where the floor of -1/2 is -1
C3_Witness ==
    /\ IsRender("BACKGROUND_MODE_CENTER")
    /\ pc = "running"
    /\ image.width = op.buffer_width + 1
    /\ Calls("cairo_set_source_surface")[1].a = RInt(0)

SixTokens == { s_stretch, s_fill, s_fit, s_center, s_tile, s_solid_color }

TokenMode(t) ==
    CASE t = s_stretch -> "BACKGROUND_MODE_STRETCH"
      [] t = s_fill -> "BACKGROUND_MODE_FILL"
      [] t = s_fit -> "BACKGROUND_MODE_FIT"
      [] t = s_center -> "BACKGROUND_MODE_CENTER"
      [] t = s_tile -> "BACKGROUND_MODE_TILE"
      [] t = s_solid_color -> "BACKGROUND_MODE_SOLID_COLOR"

\* C4: parse_background_mode always returns a value: each of the six tokens
\* returns its enum value and logs nothing, and every other string, a token
\* in another case included, returns INVALID and logs exactly one error.
C4_ParseTotal ==
    op.name = "parse" =>
        /\ ret \in BackgroundModes
        /\ (op.mode \in SixTokens => ret = TokenMode(op.mode) /\ log = <<>>)
        /\ (op.mode \notin SixTokens =>
                ret = "BACKGROUND_MODE_INVALID" /\ Len(log) = 1)

\* "Fill" was parsed: INVALID, one error logged
C4_Witness ==
    /\ op.name = "parse"
    /\ op.mode = <<70, 105, 108, 108>>
    /\ ret = "BACKGROUND_MODE_INVALID"
    /\ Len(log) = 1

\* the failure kinds of one load
OpenFailed(in) == ~in.openOk
DecodeFailed(in) == in.openOk /\ ~in.readOk
ColorspaceFailed(in) == in.readOk /\ in.cmyk /\ ~in.transformOk
StatusFailed(in) == in.readOk /\ ~in.pngOk

\* C5: for each of the four failure kinds a returning load logs an error and
\* returns NULL; a surface is returned only when none of them occurred.
C5_FailuresLogAndReturnNull ==
    op.name = "load" /\ pc # "aborted" =>
        LET failed == \/ OpenFailed(op.in)
                      \/ DecodeFailed(op.in)
                      \/ ColorspaceFailed(op.in)
                      \/ StatusFailed(op.in)
        IN  /\ (failed => Len(log) >= 1 /\ ret = "NULL")
            /\ (ret # "NULL" => ~failed)

\* C6: when a load returns, every temporary file and every engine handle
\* (wand, pixel wands) acquired during it has been released.
C6_ResourcesReleased ==
    op.name = "load" /\ pc # "aborted" =>
        wands = 0 /\ pixelWands = 0 /\ tmpFiles = 0

\* C7: over any sequence of loads the engine is initialised exactly once,
\* before its first use, and torn down exactly once, after its last use.
C7_EngineLifecycleOnce ==
    /\ genesisCalls <= 1
    /\ terminusCalls <= 1
    /\ (magick # <<>> => magick[1] = "MagickWandGenesis")
    /\ (pc # "exited" => terminusCalls = 0)
    /\ (pc = "exited" /\ genesisCalls >= 1 => terminusCalls = 1)

\* C8: for each of the five modes the function calls save, then sets
\* scale and source, then paints exactly once, then restores; the context's
\* graphics state and its save depth are afterwards what they were before.
C8_SaveRestoreBracket ==
    op.name = "render" /\ op.mode \in FiveModes =>
        LET n == Len(trace)
        IN  /\ pc # "aborted"
            /\ n >= 4
            /\ trace[1].fn = "cairo_save"
            /\ trace[n - 1].fn = "cairo_paint"
            /\ trace[n].fn = "cairo_restore"
            /\ Len(Calls("cairo_save")) = 1
            /\ Len(Calls("cairo_paint")) = 1
            /\ Len(Calls("cairo_restore")) = 1
            /\ \A i \in 2..(n - 2) :
                  trace[i].fn \in {"cairo_scale", "cairo_set_source_surface",
                                   "cairo_set_source"}
            /\ trace[n - 2].fn \in {"cairo_set_source_surface", "cairo_set_source"}
            /\ gstate = op.gstate
            /\ stack = op.stack
            /\ Len(stack) = Len(op.stack)

\* a FILL render that scaled a context whose transform was not the identity
C8_Witness ==
    /\ IsRender("BACKGROUND_MODE_FILL")
    /\ pc = "running"
    /\ op.gstate.sx = RInt(2)
    /\ Len(Calls("cairo_scale")) = 1
    /\ Calls("cairo_scale")[1].a # RInt(1)
    /\ gstate.sx = RInt(2)
    /\ gstate.source = NoSource

\* C9: with mode SOLID_COLOR or INVALID the function fails its assertion
\* and never paints; only the five other modes lead to a paint.
C9_AssertNoPaint ==
    op.name = "render" =>
        /\ (op.mode \in {"BACKGROUND_MODE_SOLID_COLOR", "BACKGROUND_MODE_INVALID"}
                => pc = "aborted" /\ Len(Calls("cairo_paint")) = 0)
        /\ (Len(Calls("cairo_paint")) > 0 => op.mode \in FiveModes)

\* the render was called with SOLID_COLOR and stopped after cairo_save
C9_Witness ==
    /\ IsRender("BACKGROUND_MODE_SOLID_COLOR")
    /\ pc = "aborted"
    /\ Len(trace) = 1
    /\ trace[1].fn = "cairo_save"

\* C10: when buffer and image have the same aspect ratio (bw*h = w*bh),
\* FILL, FIT and STRETCH produce the same geometry: scale bw/w = bh/h on
\* both axes and source offset (0,0), so the image covers the buffer exactly.
C10_TieSameGeometry ==
    /\ op.name = "render"
    /\ op.mode \in {"BACKGROUND_MODE_FILL", "BACKGROUND_MODE_FIT",
                    "BACKGROUND_MODE_STRETCH"}
    /\ op.buffer_width * image.height = image.width * op.buffer_height
    =>
        LET w == image.width
            h == image.height
            bw == op.buffer_width
            bh == op.buffer_height
            sc == Calls("cairo_scale")
            src == Calls("cairo_set_source_surface")
        IN  /\ Len(sc) = 1
            /\ Len(src) = 1
            /\ sc[1].a = RDiv(RInt(bw), RInt(w))
            /\ sc[1].b = RDiv(RInt(bh), RInt(h))
            /\ sc[1].a = sc[1].b
            /\ src[1].a = RInt(0)
            /\ src[1].b = RInt(0)
            /\ Hi(src[1].a, sc[1].a, w) = RInt(bw)
            /\ Hi(src[1].b, sc[1].b, h) = RInt(bh)
            /\ FillGeometry(w, h, bw, bh) = FitGeometry(w, h, bw, bh)
            /\ FitGeometry(w, h, bw, bh) = StretchGeometry(w, h, bw, bh)

\* FIT of a square image on a square buffer of another size
C10_Witness ==
    /\ IsRender("BACKGROUND_MODE_FIT")
    /\ pc = "running"
    /\ image.width = image.height
    /\ op.buffer_width = op.buffer_height
    /\ op.buffer_width # image.width
    /\ Calls("cairo_set_source_surface")[1].a = RInt(0)
    /\ Calls("cairo_set_source_surface")[1].b = RInt(0)

====
